---- MODULE Spec2Model ----
(***************************************************************************)
(* Tugger's Starlark context binding (tugger/src/starlark/mod.rs) and      *)
(* PyOxidizer's renderer of the embedded Python configuration              *)
(* (pyoxidizer/src/py_packaging/pyembed.rs).                               *)
(*                                                                         *)
(* Spec       : the life cycle of the TuggerContextValue bound into a      *)
(*              Starlark environment (register, populate, resolve, mutate, *)
(*              freeze).                                                   *)
(* SpecRender : derive_python_config applied to bounded configurations.    *)
(***************************************************************************)
EXTENDS Integers, Sequences, FiniteSets, TLC

VARIABLES
    env,            \* the Starlark Environment: [frozen, vars]
    type_values,    \* the Starlark TypeValues: type name -> (attribute -> Value)
    contexts,       \* the TuggerContextValue instances ever allocated (Rc heap)
    signer_frozen,  \* per code signer value: whether it has been frozen
    refusing,       \* the code signer values that refuse to freeze
    last,           \* the outcome of the last operation
    embedded,       \* the EmbeddedPythonConfig handed to derive_python_config
    embedded_resources_path,  \* the path handed to derive_python_config
    rendered        \* the text derive_python_config returned (<<>> before)

starlark_vars == <<env, type_values, contexts, signer_frozen, refusing, last>>
render_vars == <<embedded, embedded_resources_path, rendered>>
vars ==
    <<env, type_values, contexts, signer_frozen, refusing, last,
      embedded, embedded_resources_path, rendered>>

---------------------------------------------------------------------------
(* Bounds of the Starlark model.                                           *)

\* How many times populate_environment may allocate a context.
MaxContexts == 2
\* The code signer values a script can register.
NumSigners == 2
\* The longest code_signers list.
MaxCodeSigners == 2
\* The most code signers a context holds when it is handed to populate_environment.
MaxInitialSigners == 1

Signers == 1..NumSigners

RECURSIVE SeqsUpTo(_, _)
SeqsUpTo(S, n) ==
    IF n = 0 THEN {<<>>}
    ELSE LET shorter == SeqsUpTo(S, n - 1)
         IN shorter \cup {Append(q, x) : q \in {r \in shorter : Len(r) = n - 1}, x \in S}

Range(q) == {q[i] : i \in DOMAIN q}

---------------------------------------------------------------------------
(* Values and errors.                                                      *)

NoValue == [kind |-> "none", id |-> 0]
NoError == [kind |-> "", code |-> "", message |-> ""]

\* Value::new(TuggerContextValue { .. }): a handle on context instance id.
ContextValue(id) == [kind |-> "TuggerContextValue", id |-> id]
\* A native callable contributed by a dialect module.
FunctionValue == [kind |-> "function", id |-> 0]

TuggerContextValue_TYPE == "TuggerContext"
TuggerContextHolder_TYPE == "Tugger"
ENVIRONMENT_CONTEXT_SYMBOL == "TUGGER_CONTEXT"

\* TypedValue::get_type of a value of the given Rust type: its TYPE constant.
get_type(rust_type) ==
    CASE rust_type = "TuggerContextValue" -> TuggerContextValue_TYPE
      [] rust_type = "TuggerContextHolder" -> TuggerContextHolder_TYPE
      [] OTHER -> rust_type

\* TuggerContext::new(logger): no code signers yet. code_signers is a pub
\* field, so a caller may push signers before the context is bound.
TuggerContext_new == [code_signers |-> <<>>]
TuggerContexts ==
    {[TuggerContext_new EXCEPT !.code_signers = q] : q \in SeqsUpTo(Signers, MaxInitialSigners)}

\* TuggerContextValue { inner: context } held in a Mutable holder.
TuggerContextValue(context) == [code_signers |-> context.code_signers, frozen |-> FALSE]

\* DerefMut for TuggerContextValue: mutable access to the TuggerContext inside.
\* Here the mutation an extension function performs: code_signers.push(signer).
deref_mut_push(context, signer) ==
    [context EXCEPT !.code_signers = Append(@, signer)]

values_for_descendant_check_and_freeze_empty(context) == <<>>

\* TuggerContextValue::values_for_descendant_check_and_freeze:
\* self.code_signers.clone().into_iter()
values_for_descendant_check_and_freeze(context) == context.code_signers

\* TuggerContextHolder::values_for_descendant_check_and_freeze: std::iter::empty()
holder_values_for_descendant_check_and_freeze == <<>>

---------------------------------------------------------------------------
(* The starlark crate's Environment, TypeValues and Mutable holder.        *)

EmptyMap == [x \in {} |-> NoValue]

\* TypeValues::add_type_value(obj, attr, value)
add_type_value(tv, obj, attr, value) ==
    LET inner == IF obj \in DOMAIN tv THEN tv[obj] ELSE EmptyMap
    IN (obj :> ((attr :> value) @@ inner)) @@ tv

\* TypeValues::get_type_value(obj, id): Option<Value>
get_type_value(tv, obj_type, id) ==
    IF obj_type \in DOMAIN tv /\ id \in DOMAIN tv[obj_type]
    THEN [found |-> TRUE, value |-> tv[obj_type][id]]
    ELSE [found |-> FALSE, value |-> NoValue]

FrozenEnvironmentError ==
    [kind |-> "EnvironmentError", code |-> "CM00",
     message |-> "trying to mutate a frozen environment"]
VariableNotFoundError ==
    [kind |-> "EnvironmentError", code |-> "CM01", message |-> "variable not found"]
CannotMutateImmutableValue ==
    [kind |-> "ValueError", code |-> "CV00", message |-> "cannot mutate an immutable value"]
CannotFreezeError ==
    [kind |-> "FreezeError", code |-> "", message |-> "a reachable value refuses to freeze"]

\* Environment::set(name, value): Result<(), EnvironmentError>
env_set(e, name, value) ==
    IF e.frozen
    THEN [ok |-> FALSE, env |-> e, err |-> FrozenEnvironmentError]
    ELSE [ok |-> TRUE, env |-> [e EXCEPT !.vars = (name :> value) @@ @], err |-> NoError]

\* Environment::get(name): Result<Value, EnvironmentError>
env_get(e, name) ==
    IF name \in DOMAIN e.vars
    THEN [ok |-> TRUE, value |-> e.vars[name], err |-> NoError]
    ELSE [ok |-> FALSE, value |-> NoValue, err |-> VariableNotFoundError]

\* Value::downcast_mut on a Mutable holder: refused once the value is frozen.
downcast_mut(context) ==
    IF context.frozen
    THEN [ok |-> FALSE, err |-> CannotMutateImmutableValue]
    ELSE [ok |-> TRUE, err |-> NoError]

---------------------------------------------------------------------------
(* get_context_value                                                       *)

ContextNotFoundError ==
    [kind |-> "RuntimeError", code |-> "TUGGER",
     message |-> "unable to resolve context (this should never happen)"]

get_context_value_wrong_type(tv) ==
    LET r == get_type_value(tv, get_type("TuggerContextValue"), ENVIRONMENT_CONTEXT_SYMBOL)
    IN  IF r.found
        THEN [ok |-> TRUE, value |-> r.value, err |-> NoError]
        ELSE [ok |-> FALSE, value |-> NoValue, err |-> ContextNotFoundError]

get_context_value_generic_error(tv) ==
    LET r == get_type_value(tv, get_type("TuggerContextHolder"), ENVIRONMENT_CONTEXT_SYMBOL)
    IN  IF r.found
        THEN [ok |-> TRUE, value |-> r.value, err |-> NoError]
        ELSE [ok |-> FALSE, value |-> NoValue, err |-> VariableNotFoundError]

get_context_value(tv) ==
    LET r == get_type_value(tv, get_type("TuggerContextHolder"), ENVIRONMENT_CONTEXT_SYMBOL)
    IN  IF r.found
        THEN [ok |-> TRUE, value |-> r.value, err |-> NoError]
        ELSE [ok |-> FALSE, value |-> NoValue, err |-> ContextNotFoundError]

---------------------------------------------------------------------------
(* Operations on the environment.                                          *)

\* What the last operation returned: its error (NoError when it succeeded), the
\* Value it resolved, and the signer values it pushed or visited.
Outcome(op, err, value, signers) ==
    [op |-> op, err |-> err, value |-> value, signers |-> signers]

\* The modules register_starlark_dialect installs, one per collaborator.
DialectModules ==
    {"code_signing", "file_resource", "macos_application_bundle_builder",
     "snapcraft", "wix_bundle_builder", "wix_installer", "wix_msi_builder"}

RECURSIVE install_modules(_, _)
\* Each module contributes its callables: a global in env, and the methods of
\* its own value type in type_values.
install_modules(modules, state) ==
    IF modules = {} THEN state
    ELSE LET m == CHOOSE x \in modules : TRUE
             set == env_set(state.env, m, FunctionValue)
         IN install_modules(modules \ {m},
                [env |-> set.env,
                 type_values |-> add_type_value(state.type_values, m, "method", FunctionValue)])

register_starlark_dialect ==
    /\ ~env.frozen
    /\ LET done == install_modules(DialectModules, [env |-> env, type_values |-> type_values])
       IN  /\ env' = done.env
           /\ type_values' = done.type_values
    /\ last' = Outcome("register_starlark_dialect", NoError, NoValue, <<>>)
    /\ UNCHANGED <<contexts, signer_frozen, refusing>>

\* The context instances held by the environment's variables.
BoundContexts(e) ==
    {e.vars[n].id : n \in {m \in DOMAIN e.vars : e.vars[m].kind = "TuggerContextValue"}}

\* The context instances held by the lookup table.
TableContexts(tv) ==
    {tv[t][a].id : <<t, a>> \in
        {<<u, b>> \in UNION {{u} \X DOMAIN tv[u] : u \in DOMAIN tv} :
            tv[u][b].kind = "TuggerContextValue"}}

\* A context instance no Value refers to any more: Rc has released it.
Dropped == [code_signers |-> <<>>, frozen |-> FALSE]

\* The instances after the environment and the table have let go of the
\* Values they replaced: what neither refers to is released.
release(heap, e, tv) ==
    [id \in DOMAIN heap |->
        IF id \in BoundContexts(e) \cup TableContexts(tv) THEN heap[id] ELSE Dropped]

populate_environment_unshared(context) ==
    LET id == Len(contexts) + 1
        set == env_set(env, ENVIRONMENT_CONTEXT_SYMBOL, ContextValue(id))
    IN  IF ~set.ok
        THEN /\ last' = Outcome("populate_environment", set.err, NoValue, <<>>)
             /\ UNCHANGED <<env, type_values, contexts, signer_frozen, refusing>>
        ELSE /\ Len(contexts) + 2 <= MaxContexts
             /\ env' = set.env
             /\ type_values' = add_type_value(type_values, TuggerContextHolder_TYPE,
                                   ENVIRONMENT_CONTEXT_SYMBOL, ContextValue(id + 1))
             /\ contexts' = release(contexts \o <<TuggerContextValue(context),
                                                  TuggerContextValue(context)>>,
                                    env', type_values')
             /\ last' = Outcome("populate_environment", NoError, NoValue, <<>>)
             /\ UNCHANGED <<signer_frozen, refusing>>

populate_environment_table_first(context) ==
    LET id == Len(contexts) + 1
        value == ContextValue(id)
        set == env_set(env, ENVIRONMENT_CONTEXT_SYMBOL, value)
    IN  /\ Len(contexts) < MaxContexts
        /\ type_values' = add_type_value(type_values, TuggerContextHolder_TYPE,
                              ENVIRONMENT_CONTEXT_SYMBOL, value)
        /\ env' = set.env
        /\ contexts' = release(Append(contexts, TuggerContextValue(context)), env', type_values')
        /\ last' = Outcome("populate_environment", set.err, NoValue, <<>>)
        /\ UNCHANGED <<signer_frozen, refusing>>

populate_environment(context) ==
    LET id == Len(contexts) + 1
        set == env_set(env, ENVIRONMENT_CONTEXT_SYMBOL, ContextValue(id))
        got == env_get(set.env, ENVIRONMENT_CONTEXT_SYMBOL)
    IN  IF ~set.ok
        THEN \* env.set(..)? returns the error; the value just built is dropped
             /\ last' = Outcome("populate_environment", set.err, NoValue, <<>>)
             /\ UNCHANGED <<env, type_values, contexts, signer_frozen, refusing>>
        ELSE /\ Len(contexts) < MaxContexts
             /\ env' = set.env
             /\ IF ~got.ok
                THEN \* env.get(symbol)? returns the error
                     /\ last' = Outcome("populate_environment", got.err, NoValue, <<>>)
                     /\ UNCHANGED type_values
                ELSE /\ type_values' = add_type_value(type_values, TuggerContextHolder_TYPE,
                                           ENVIRONMENT_CONTEXT_SYMBOL, got.value)
                     /\ last' = Outcome("populate_environment", NoError, NoValue, <<>>)
             /\ contexts' = release(Append(contexts, TuggerContextValue(context)),
                                    env', type_values')
             /\ UNCHANGED <<signer_frozen, refusing>>

\* An extension function (or the test) resolving the context.
resolve_context ==
    LET r == get_context_value(type_values)
    IN  /\ last' = Outcome("get_context_value", r.err, r.value, <<>>)
        /\ UNCHANGED <<env, type_values, contexts, signer_frozen, refusing>>

\* An extension function registering a code signer: it resolves the context,
\* borrows it mutably and pushes the signer onto code_signers.
register_code_signer(signer) ==
    LET r == get_context_value(type_values)
    IN  IF ~r.ok
        THEN /\ last' = Outcome("register_code_signer", r.err, NoValue, <<>>)
             /\ UNCHANGED <<env, type_values, contexts, signer_frozen, refusing>>
        ELSE LET id == r.value.id
                 borrow == downcast_mut(contexts[id])
             IN  IF ~borrow.ok
                 THEN /\ last' = Outcome("register_code_signer", borrow.err, r.value, <<>>)
                      /\ UNCHANGED <<env, type_values, contexts, signer_frozen, refusing>>
                 ELSE /\ Len(contexts[id].code_signers) < MaxCodeSigners
                      /\ contexts' = [contexts EXCEPT ![id] = deref_mut_push(@, signer)]
                      /\ last' = Outcome("register_code_signer", NoError, r.value, <<signer>>)
                      /\ UNCHANGED <<env, type_values, signer_frozen, refusing>>

\* Environment::freeze: every value the environment holds is frozen, and each
\* value's descendants, as values_for_descendant_check_and_freeze lists them.
\* A descendant that refuses to freeze makes the freeze fail.
environment_freeze ==
    /\ ~env.frozen
    /\ LET bound == BoundContexts(env)
           visited == IF bound = {} THEN <<>>
                      ELSE values_for_descendant_check_and_freeze(
                               contexts[CHOOSE id \in bound : TRUE])
       IN  IF Range(visited) \cap refusing # {}
           THEN /\ last' = Outcome("freeze", CannotFreezeError, NoValue, visited)
                /\ UNCHANGED <<env, contexts, signer_frozen>>
           ELSE /\ env' = [env EXCEPT !.frozen = TRUE]
                /\ contexts' = [id \in DOMAIN contexts |->
                                   IF id \in bound
                                   THEN [contexts[id] EXCEPT !.frozen = TRUE]
                                   ELSE contexts[id]]
                /\ signer_frozen' = [s \in Signers |->
                                        signer_frozen[s] \/ s \in Range(visited)]
                /\ last' = Outcome("freeze", NoError, NoValue, visited)
    /\ UNCHANGED <<type_values, refusing>>

---------------------------------------------------------------------------
(* derive_python_config.                                                   *)
(*                                                                         *)
(* Text is a sequence of tokens.  A character of an input string is one    *)
(* token; the renderer's own text is cut at the characters the target      *)
(* grammar gives a meaning to: the double quote, #, backslash, parentheses,*)
(* braces and the comma are tokens of their own, and a run of other        *)
(* characters is one token.  White space between tokens is left out.       *)

\* The longest input string.
MaxStrLen == 4
\* The longest module search path, and the most of them.
MaxPathLen == 1
MaxSysPaths == 2
\* optimize_level and bytes_warning range over -MaxLevel..MaxLevel.
MaxLevel == 4

QUOTE == "\""
HASH == "#"
BACKSLASH == "\\"
Chars == {"a", QUOTE, HASH, BACKSLASH}
Strings == SeqsUpTo(Chars, MaxStrLen)

None == [some |-> FALSE, value |-> <<>>]
Some(v) == [some |-> TRUE, value |-> v]

RECURSIVE Concat(_)
Concat(parts) == IF parts = <<>> THEN <<>> ELSE Head(parts) \o Concat(Tail(parts))

RECURSIVE Join(_, _)
\* Vec<String>::join(sep)
Join(parts, sep) ==
    IF parts = <<>> THEN <<>>
    ELSE IF Len(parts) = 1 THEN parts[1]
    ELSE parts[1] \o sep \o Join(Tail(parts), sep)

Bool(b) == IF b THEN <<"true">> ELSE <<"false">>

render_profile(config) ==
    IF config.isolated
    THEN <<"pyembed::PythonInterpreterProfile::Isolated">>
    ELSE <<"pyembed::PythonInterpreterProfile::Python">>

\* format_args!("Some(\"{}\")", value)
render_stdio_encoding_name(config) ==
    IF config.stdio_encoding_name.some
    THEN <<"Some", "(", QUOTE>> \o config.stdio_encoding_name.value \o <<QUOTE, ")">>
    ELSE <<"None">>

render_stdio_encoding_errors(config) ==
    IF config.stdio_encoding_errors.some
    THEN <<"Some", "(", QUOTE>> \o config.stdio_encoding_errors.value \o <<QUOTE, ")">>
    ELSE <<"None">>

render_optimization_level_fallback_zero(config) ==
    CASE config.optimize_level = 0 -> <<"pyembed::OptimizationLevel::Zero">>
      [] config.optimize_level = 1 -> <<"pyembed::OptimizationLevel::One">>
      [] config.optimize_level = 2 -> <<"pyembed::OptimizationLevel::Two">>
      [] OTHER -> <<"pyembed::OptimizationLevel::Zero">>

render_optimization_level(config) ==
    CASE config.optimize_level = 0 -> <<"pyembed::OptimizationLevel::Zero">>
      [] config.optimize_level = 1 -> <<"pyembed::OptimizationLevel::One">>
      [] config.optimize_level = 2 -> <<"pyembed::OptimizationLevel::Two">>
      [] OTHER -> <<"pyembed::OptimizationLevel::Two">>

\* |p| "\"".to_owned() + p + "\".to_string()"
render_sys_path(p) == <<QUOTE>> \o p \o <<QUOTE, ".to_string", "(", ")">>

render_module_search_paths(config) ==
    IF config.sys_paths = <<>>
    THEN <<"None">>
    ELSE <<"Some", "(">>
         \o Join([i \in DOMAIN config.sys_paths |-> render_sys_path(config.sys_paths[i])],
                 <<",">>)
         \o <<")">>

render_bytes_warning(config) ==
    CASE config.bytes_warning = 0 -> <<"pyembed::BytesWarning::None">>
      [] config.bytes_warning = 1 -> <<"pyembed::BytesWarning::Warn">>
      [] config.bytes_warning = 2 -> <<"pyembed::BytesWarning::Raise">>
      [] OTHER -> <<"pyembed::BytesWarning::Raise">>

render_raw_allocator(config) ==
    CASE config.raw_allocator = "Jemalloc" -> <<"pyembed::PythonRawAllocator::jemalloc", "(", ")">>
      [] config.raw_allocator = "Rust" -> <<"pyembed::PythonRawAllocator::rust", "(", ")">>
      [] config.raw_allocator = "System" -> <<"pyembed::PythonRawAllocator::system", "(", ")">>

render_terminfo_resolution(config) ==
    CASE config.terminfo_resolution.tag = "Dynamic" -> <<"pyembed::TerminfoResolution::Dynamic">>
      [] config.terminfo_resolution.tag = "None" -> <<"pyembed::TerminfoResolution::None">>
      [] config.terminfo_resolution.tag = "Static" ->
            <<"pyembed::TerminfoResolution::Static", "(", "r", HASH, HASH, HASH, QUOTE>>
            \o config.terminfo_resolution.value
            \o <<QUOTE, HASH, HASH, HASH>>

render_write_modules_directory_env(config) ==
    IF config.write_modules_directory_env.some
    THEN <<"Some", "(", QUOTE>> \o config.write_modules_directory_env.value
         \o <<QUOTE, ".to_string", "(", ")", ")">>
    ELSE <<"None">>

render_run_mode_eval_as_module(config) ==
    CASE config.run_mode.tag = "Noop" -> <<"pyembed::PythonRunMode::None">>
      [] config.run_mode.tag = "Repl" -> <<"pyembed::PythonRunMode::Repl">>
      [] config.run_mode.tag = "Module" ->
            <<"pyembed::PythonRunMode::Module", "{", "module:", QUOTE>>
            \o config.run_mode.payload
            \o <<QUOTE, ".to_string", "(", ")", "}">>
      [] config.run_mode.tag = "Eval" ->
            <<"pyembed::PythonRunMode::Module", "{", "module:", QUOTE>>
            \o config.run_mode.payload
            \o <<QUOTE, ".to_string", "(", ")", "}">>
      [] config.run_mode.tag = "File" ->
            <<"pyembed::PythonRunMode::File", "{", "path:", "std::path::PathBuf::new", "(",
              "r", HASH, HASH, HASH, QUOTE>>
            \o config.run_mode.payload
            \o <<QUOTE, HASH, HASH, HASH, ")", "}">>

render_run_mode(config) ==
    CASE config.run_mode.tag = "Noop" -> <<"pyembed::PythonRunMode::None">>
      [] config.run_mode.tag = "Repl" -> <<"pyembed::PythonRunMode::Repl">>
      [] config.run_mode.tag = "Module" ->
            <<"pyembed::PythonRunMode::Module", "{", "module:", QUOTE>>
            \o config.run_mode.payload
            \o <<QUOTE, ".to_string", "(", ")", "}">>
      [] config.run_mode.tag = "Eval" ->
            <<"pyembed::PythonRunMode::Eval", "{", "code:", "r", HASH, HASH, HASH, QUOTE>>
            \o config.run_mode.payload
            \o <<QUOTE, HASH, HASH, HASH, ".to_string", "(", ")", "}">>
      [] config.run_mode.tag = "File" ->
            <<"pyembed::PythonRunMode::File", "{", "path:", "std::path::PathBuf::new", "(",
              "r", HASH, HASH, HASH, QUOTE>>
            \o config.run_mode.payload
            \o <<QUOTE, HASH, HASH, HASH, ")", "}">>

\* "name: value,"
Field(name, value) == <<name>> \o value \o <<",">>

\* The fields the format string sets to None, in its order.
NoneFieldNames ==
    <<"allocator:", "configure_locale:", "coerce_c_locale:", "coerce_c_locale_warn:",
      "development_mode:", "isolated:", "parse_argv:", "utf8_mode:", "argv:",
      "base_exec_prefix:", "base_executable:", "base_prefix:", "check_hash_pycs_mode:",
      "configure_c_stdio:", "dump_refs:", "exec_prefix:", "executable:", "fault_handler:",
      "filesystem_encoding:", "filesystem_errors:", "hash_seed:", "home:", "import_time:",
      "install_signal_handlers:", "malloc_stats:", "prefix:", "program_name:",
      "python_path_env:", "pathconfig_warnings:", "pycache_prefix:", "run_command:",
      "run_filename:", "run_module:", "tracemalloc:", "warn_options:", "show_alloc_count:",
      "show_ref_count:", "skip_first_source_line:", "x_options:">>

SomeOf(value) == <<"Some", "(">> \o value \o <<")">>

derive_python_config(config, resources_path) ==
    Concat(<<
        <<"pyembed::OxidizedPythonInterpreterConfig", "{">>,
        <<"interpreter_config:", "pyembed::PythonInterpreterConfig", "{">>,
        Field("profile:", render_profile(config)),
        Concat([i \in DOMAIN NoneFieldNames |-> Field(NoneFieldNames[i], <<"None">>)]),
        Field("stdio_encoding:", render_stdio_encoding_name(config)),
        Field("stdio_errors:", render_stdio_encoding_errors(config)),
        Field("optimization_level:", SomeOf(render_optimization_level(config))),
        Field("module_search_paths:", render_module_search_paths(config)),
        Field("bytes_warning:", SomeOf(render_bytes_warning(config))),
        Field("site_import:", SomeOf(Bool(config.site_import))),
        Field("user_site_directory:", SomeOf(Bool(config.user_site_directory))),
        Field("use_environment:", SomeOf(Bool(~config.ignore_environment))),
        Field("inspect:", SomeOf(Bool(config.inspect))),
        Field("interactive:", SomeOf(Bool(config.interactive))),
        Field("legacy_windows_fs_encoding:", SomeOf(Bool(config.legacy_windows_fs_encoding))),
        Field("legacy_windows_stdio:", SomeOf(Bool(config.legacy_windows_stdio))),
        Field("write_bytecode:", SomeOf(Bool(config.write_bytecode))),
        Field("buffered_stdio:", SomeOf(Bool(~config.unbuffered_stdio))),
        Field("parser_debug:", SomeOf(Bool(config.parser_debug))),
        Field("quiet:", SomeOf(Bool(config.quiet))),
        Field("verbose:", SomeOf(Bool(config.verbose # 0))),
        <<"}", ",">>,
        Field("raw_allocator:", SomeOf(render_raw_allocator(config))),
        Field("oxidized_importer:", <<"true">>),
        Field("filesystem_importer:", Bool(config.filesystem_importer)),
        Field("packed_resources:",
              <<"Some", "(", "include_bytes!", "(", "r", HASH, QUOTE>>
              \o resources_path \o <<QUOTE, HASH, ")", ")">>),
        Field("extra_extension_modules:", <<"None">>),
        Field("argvb:", <<"false">>),
        Field("sys_frozen:", Bool(config.sys_frozen)),
        Field("sys_meipass:", Bool(config.sys_meipass)),
        Field("terminfo_resolution:", render_terminfo_resolution(config)),
        Field("write_modules_directory_env:", render_write_modules_directory_env(config)),
        Field("run:", render_run_mode(config)),
        <<"}">>
    >>)

---------------------------------------------------------------------------
(* The configurations derive_python_config is applied to.                  *)

DefaultConfig ==
    [isolated |-> FALSE,
     stdio_encoding_name |-> None,
     stdio_encoding_errors |-> None,
     optimize_level |-> 0,
     sys_paths |-> <<>>,
     bytes_warning |-> 0,
     site_import |-> FALSE,
     user_site_directory |-> FALSE,
     ignore_environment |-> TRUE,
     inspect |-> FALSE,
     interactive |-> FALSE,
     legacy_windows_fs_encoding |-> FALSE,
     legacy_windows_stdio |-> FALSE,
     write_bytecode |-> FALSE,
     unbuffered_stdio |-> FALSE,
     parser_debug |-> FALSE,
     quiet |-> FALSE,
     verbose |-> 0,
     raw_allocator |-> "System",
     filesystem_importer |-> FALSE,
     sys_frozen |-> FALSE,
     sys_meipass |-> FALSE,
     terminfo_resolution |-> [tag |-> "Dynamic", value |-> <<>>],
     write_modules_directory_env |-> None,
     run_mode |-> [tag |-> "Repl", payload |-> <<>>]]

DefaultResourcesPath == <<"a">>

OptStrings == {None} \cup {Some(v) : v \in Strings}
Levels == (0 - MaxLevel)..MaxLevel
SysPaths == SeqsUpTo(SeqsUpTo(Chars, MaxPathLen), MaxSysPaths)
TerminfoResolutions ==
    {[tag |-> "Dynamic", value |-> <<>>], [tag |-> "None", value |-> <<>>]}
    \cup {[tag |-> "Static", value |-> v] : v \in Strings}
RunModes ==
    {[tag |-> "Noop", payload |-> <<>>], [tag |-> "Repl", payload |-> <<>>]}
    \cup {[tag |-> t, payload |-> v] : t \in {"Module", "Eval", "File"}, v \in Strings}

\* Each family varies some fields of the configuration and keeps the others.
Configs ==
    {[DefaultConfig EXCEPT !.stdio_encoding_name = v] : v \in OptStrings}
    \cup {[DefaultConfig EXCEPT !.stdio_encoding_errors = v] : v \in OptStrings}
    \cup {[DefaultConfig EXCEPT !.optimize_level = o, !.bytes_warning = b, !.isolated = i] :
             o \in Levels, b \in Levels, i \in BOOLEAN}
    \cup {[DefaultConfig EXCEPT !.sys_paths = v] : v \in SysPaths}
    \cup {[DefaultConfig EXCEPT !.terminfo_resolution = v] : v \in TerminfoResolutions}
    \cup {[DefaultConfig EXCEPT !.write_modules_directory_env = v] : v \in OptStrings}
    \cup {[DefaultConfig EXCEPT !.run_mode = v] : v \in RunModes}
    \cup {[DefaultConfig EXCEPT !.run_mode = r, !.terminfo_resolution = t, !.sys_paths = p,
                                !.optimize_level = 5] :
             r \in {m \in RunModes : Len(m.payload) <= 1},
             t \in {m \in TerminfoResolutions : Len(m.value) <= 1},
             p \in {q \in SysPaths : Len(q) <= 1}}
    \cup {[DefaultConfig EXCEPT !.site_import = b, !.user_site_directory = b,
                                !.ignore_environment = ~b, !.inspect = b, !.interactive = b,
                                !.legacy_windows_fs_encoding = b, !.legacy_windows_stdio = b,
                                !.write_bytecode = b, !.unbuffered_stdio = ~b,
                                !.parser_debug = b, !.quiet = b, !.verbose = v,
                                !.raw_allocator = a, !.filesystem_importer = b,
                                !.sys_frozen = f, !.sys_meipass = ~f] :
             b \in BOOLEAN, v \in 0..2, f \in BOOLEAN, a \in {"Jemalloc", "Rust", "System"}}

ResourcesPaths == SeqsUpTo({"a", "/"}, 2)

\* The inputs of derive_python_config: a configuration and a resources path.
Inputs == (Configs \X {DefaultResourcesPath}) \cup ({DefaultConfig} \X ResourcesPaths)

---------------------------------------------------------------------------
(* The specification of the context life cycle.                            *)

StarlarkInit ==
    /\ env = [frozen |-> FALSE, vars |-> EmptyMap]
    /\ type_values = EmptyMap
    /\ contexts = <<>>
    /\ signer_frozen = [s \in Signers |-> FALSE]
    /\ last = Outcome("new", NoError, NoValue, <<>>)

Init ==
    /\ StarlarkInit
    /\ refusing \in SUBSET Signers
    /\ embedded = DefaultConfig
    /\ embedded_resources_path = DefaultResourcesPath
    /\ rendered = <<>>

Next ==
    \/ register_starlark_dialect /\ UNCHANGED render_vars
    \/ (\E context \in TuggerContexts : populate_environment(context)) /\ UNCHANGED render_vars
    \/ resolve_context /\ UNCHANGED render_vars
    \/ (\E signer \in Signers : register_code_signer(signer)) /\ UNCHANGED render_vars
    \/ environment_freeze /\ UNCHANGED render_vars

Spec == Init /\ [][Next]_vars

---------------------------------------------------------------------------
(* The specification of the renderer.                                      *)

InitRender ==
    /\ StarlarkInit
    /\ refusing = {}
    /\ \E input \in Inputs :
          /\ embedded = input[1]
          /\ embedded_resources_path = input[2]
    /\ rendered = <<>>

derive ==
    /\ rendered = <<>>
    /\ rendered' = derive_python_config(embedded, embedded_resources_path)
    /\ UNCHANGED <<embedded, embedded_resources_path>>
    /\ UNCHANGED starlark_vars

NextRender == derive

SpecRender == InitRender /\ [][NextRender]_vars

---------------------------------------------------------------------------
(* Properties of the context life cycle (checked under Spec).              *)

\* The context instance the environment holds under the reserved symbol.
BoundContext == env.vars[ENVIRONMENT_CONTEXT_SYMBOL]
IsBound == ENVIRONMENT_CONTEXT_SYMBOL \in DOMAIN env.vars

\* C1: once the environment holding a bound context is frozen, it stays
\* frozen, a frozen context never changes or becomes mutable again, and every
\* later attempt to push a code signer fails with the immutable-value error
\* and leaves every context as it was.
C1_FrozenIsTerminal ==
    [][ /\ (env.frozen => env'.frozen)
        /\ \A id \in DOMAIN contexts :
              contexts[id].frozen => contexts'[id] = contexts[id]
        /\ (env.frozen /\ IsBound /\ last'.op = "register_code_signer")
              => /\ last'.err = CannotMutateImmutableValue
                 /\ contexts' = contexts
                 /\ signer_frozen' = signer_frozen ]_vars

C1_Witness ==
    /\ env.frozen
    /\ IsBound
    /\ last.op = "register_code_signer"
    /\ last.err = CannotMutateImmutableValue
    /\ contexts[BoundContext.id].code_signers # <<>>

\* C2: once populate_environment has bound a context, get_context_value
\* succeeds and returns the very Value stored under the reserved symbol in the
\* environment, so a signer pushed through a resolved handle is seen through
\* the environment's own handle.
C2_ResolveReturnsBound ==
    IsBound =>
        /\ get_context_value(type_values) =
              [ok |-> TRUE, value |-> BoundContext, err |-> NoError]
        /\ (last.op = "get_context_value" =>
              last.err = NoError /\ last.value = BoundContext)
        /\ (last.op = "register_code_signer" /\ last.err = NoError =>
              /\ last.value = BoundContext
              /\ LET signers == contexts[BoundContext.id].code_signers
                 IN  signers # <<>> /\ signers[Len(signers)] = last.signers[1])

C2_Witness ==
    /\ IsBound
    /\ last.op = "get_context_value"
    /\ last.value = BoundContext
    /\ Len(contexts) = 2
    /\ contexts[BoundContext.id].code_signers # <<>>

\* C3: while no populate_environment has succeeded, also after
\* register_starlark_dialect, get_context_value fails with the TUGGER
\* "unable to resolve context" error and returns no value; no other operation
\* returns that error.
C3_ContextNotFound ==
    /\ (contexts = <<>> =>
           get_context_value(type_values) =
              [ok |-> FALSE, value |-> NoValue, err |-> ContextNotFoundError])
    /\ (contexts = <<>> /\ last.op \in {"get_context_value", "register_code_signer"} =>
           last.err = ContextNotFoundError /\ last.value = NoValue)
    /\ (last.err = ContextNotFoundError =>
           /\ last.op \in {"get_context_value", "register_code_signer"}
           /\ contexts = <<>>)
    /\ ContextNotFoundError \notin
           {NoError, FrozenEnvironmentError, VariableNotFoundError,
            CannotMutateImmutableValue, CannotFreezeError}

C3_Witness ==
    /\ last.op = "get_context_value"
    /\ last.err = ContextNotFoundError
    /\ DOMAIN type_values = DialectModules
    /\ env.frozen

\* C9: a freeze enumerates exactly the code signers the bound context holds,
\* in order; in a frozen environment the bound context and every signer it
\* holds are frozen; and a freeze that meets a refusing signer fails and
\* leaves the environment unfrozen.
C9_FreezeVisitsEverySigner ==
    /\ (last.op = "freeze" /\ IsBound =>
           last.signers = contexts[BoundContext.id].code_signers)
    /\ (env.frozen /\ IsBound =>
           /\ contexts[BoundContext.id].frozen
           /\ \A s \in Range(contexts[BoundContext.id].code_signers) :
                 signer_frozen[s] /\ s \notin refusing)
    /\ (last.op = "freeze" /\ IsBound
          /\ Range(contexts[BoundContext.id].code_signers) \cap refusing # {} =>
           last.err # NoError /\ ~env.frozen)

C9_Witness ==
    /\ last.op = "freeze"
    /\ last.err = NoError
    /\ IsBound
    /\ Len(contexts[BoundContext.id].code_signers) = 2
    /\ refusing # {}

\* C10: a populate_environment that returns an error leaves the lookup table
\* as it was, so get_context_value answers as before: the error is the
\* environment's refusal of the assignment.
C10_PopulateAllOrNothing ==
    [][ (last'.op = "populate_environment" /\ last'.err # NoError) =>
           /\ last'.err = FrozenEnvironmentError
           /\ type_values' = type_values
           /\ get_context_value(type_values') = get_context_value(type_values)
           /\ env' = env ]_vars

C10_Witness ==
    /\ last.op = "populate_environment"
    /\ last.err = FrozenEnvironmentError
    /\ get_context_value(type_values).ok

---------------------------------------------------------------------------
(* Reading the rendered text back, as the target grammar does.             *)

\* The index of the first token tok of text (0: none).
IndexOf(text, tok) ==
    IF \E i \in DOMAIN text : text[i] = tok
    THEN CHOOSE i \in DOMAIN text : text[i] = tok /\ \A j \in 1..(i - 1) : text[j] # tok
    ELSE 0

\* The index of the first token of the value of field name.
ValueStart(text, name) == IndexOf(text, name) + 1

\* The least member of a set of indices (0: the set is empty).
Least(S) == IF S = {} THEN 0 ELSE CHOOSE j \in S : \A k \in S : j <= k

\* How many backslashes stand right before index j, none taken before index i.
BackslashRun(text, i, j) ==
    CHOOSE n \in 0..(j - i) :
        /\ \A k \in 1..n : text[j - k] = BACKSLASH
        /\ (n = j - i \/ text[j - n - 1] # BACKSLASH)

\* The index of the quote that closes the plain literal whose content starts
\* at i: the first quote no backslash escapes, a backslash escaping the token
\* after it (0: the literal never closes).
PlainEnd(text, i) ==
    Least({j \in i..Len(text) : text[j] = QUOTE /\ BackslashRun(text, i, j) % 2 = 0})

RECURSIVE Unescape(_)
\* The string a plain literal with this content denotes ("?" where the escape
\* is none of the target grammar's).
Unescape(content) ==
    IF content = <<>> THEN <<>>
    ELSE IF Head(content) # BACKSLASH THEN <<Head(content)>> \o Unescape(Tail(content))
    ELSE IF Len(content) = 1 THEN <<"?">>
    ELSE IF content[2] \in {QUOTE, BACKSLASH}
         THEN <<content[2]>> \o Unescape(Tail(Tail(content)))
    ELSE <<"?">> \o Unescape(Tail(Tail(content)))

\* Whether the n tokens after index j are all #.
HashesAfter(text, j, n) == \A k \in 1..n : j + k <= Len(text) /\ text[j + k] = HASH

\* The index of the quote that closes the raw literal of n hashes whose
\* content starts at i: the first quote followed by n hashes (0: none).
RawEnd(text, i, n) ==
    Least({j \in i..Len(text) : text[j] = QUOTE /\ HashesAfter(text, j, n)})

\* How many # tokens start at index i.
HashRun(text, i) ==
    CHOOSE n \in 0..Len(text) :
        /\ \A k \in 0..(n - 1) : i + k <= Len(text) /\ text[i + k] = HASH
        /\ (i + n > Len(text) \/ text[i + n] # HASH)

Closer(open) == IF open = "(" THEN ")" ELSE "}"

RECURSIVE ValueEnd(_, _, _)
\* The index of the token that ends the expression starting at i, given the
\* brackets open so far (stack): the first comma or closing bracket met with no
\* bracket open, outside every literal.  0 when the text is no expression: a
\* literal never closes, a bracket is closed by the wrong one, a # or a
\* backslash stands outside a literal, or the text ends first.
ValueEnd(text, i, stack) ==
    IF i > Len(text) THEN 0
    ELSE LET tok == text[i] IN
         IF tok = QUOTE
         THEN LET e == PlainEnd(text, i + 1)
              IN  IF e = 0 THEN 0 ELSE ValueEnd(text, e + 1, stack)
         ELSE IF tok = "r" /\ i + 1 + HashRun(text, i + 1) <= Len(text)
                 /\ text[i + 1 + HashRun(text, i + 1)] = QUOTE
         THEN LET n == HashRun(text, i + 1)
                  e == RawEnd(text, i + n + 2, n)
              IN  IF e = 0 THEN 0 ELSE ValueEnd(text, e + n + 1, stack)
         ELSE IF tok \in {HASH, BACKSLASH} THEN 0
         ELSE IF tok \in {"(", "{"} THEN ValueEnd(text, i + 1, <<tok>> \o stack)
         ELSE IF tok \in {")", "}"}
         THEN IF stack = <<>> THEN i
              ELSE IF tok = Closer(Head(stack)) THEN ValueEnd(text, i + 1, Tail(stack))
              ELSE 0
         ELSE IF tok = "," /\ stack = <<>> THEN i
         ELSE ValueEnd(text, i + 1, stack)

RECURSIVE ArgCount(_, _)
\* How many comma-separated values stand between index i, just after an
\* opening parenthesis, and the parenthesis that closes it (0: the text is no
\* argument list).
ArgCount(text, i) ==
    LET e == ValueEnd(text, i, <<>>)
    IN  IF e = 0 \/ e = i THEN 0
        ELSE IF text[e] = ")" THEN 1
        ELSE IF text[e] = "," /\ ArgCount(text, e + 1) > 0 THEN 1 + ArgCount(text, e + 1)
        ELSE 0

RECURSIVE LiteralsIn(_, _, _)
\* The strings the plain literals between indices i and to denote, in order.
LiteralsIn(text, i, to) ==
    IF i > to THEN <<>>
    ELSE IF text[i] = QUOTE
    THEN LET e == PlainEnd(text, i + 1)
         IN  IF e = 0 \/ e > to THEN <<>>
             ELSE <<Unescape(SubSeq(text, i + 1, e - 1))>> \o LiteralsIn(text, e + 1, to)
    ELSE LiteralsIn(text, i + 1, to)

\* The plain literal opened by the quote at index open closes at the
\* renderer's own closing quote and denotes the string value.
PlainLiteralIs(text, open, value) ==
    /\ text[open] = QUOTE
    /\ PlainEnd(text, open + 1) = open + 1 + Len(value)
    /\ Unescape(SubSeq(text, open + 1, open + Len(value))) = value

\* The raw literal of n hashes opened by the quote at index open closes at
\* the renderer's own closing delimiter, so that its content is value.
RawLiteralIs(text, open, n, value) ==
    /\ text[open] = QUOTE
    /\ RawEnd(text, open + 1, n) = open + 1 + Len(value)
    /\ SubSeq(text, open + 1, open + Len(value)) = value

DelimiterFree(value) == \A i \in DOMAIN value : value[i] = "a"

RECURSIVE SysPathOpen(_, _, _)
\* The index of the quote opening the k-th module search path, the first
\* path's quote being at index first.
SysPathOpen(paths, k, first) ==
    IF k = 1 THEN first
    ELSE SysPathOpen(paths, k - 1, first) + Len(paths[k - 1]) + 6

---------------------------------------------------------------------------
(* Properties of derive_python_config (checked under SpecRender).          *)

Derived == rendered # <<>>

\* C4: every string field's literal is closed by the renderer's own closing
\* delimiter and denotes the input string, whatever the string holds.
C4_StringLiteralsRoundTrip ==
    Derived =>
        /\ (embedded.stdio_encoding_name.some =>
              PlainLiteralIs(rendered, ValueStart(rendered, "stdio_encoding:") + 2,
                             embedded.stdio_encoding_name.value))
        /\ (embedded.stdio_encoding_errors.some =>
              PlainLiteralIs(rendered, ValueStart(rendered, "stdio_errors:") + 2,
                             embedded.stdio_encoding_errors.value))
        /\ \A k \in DOMAIN embedded.sys_paths :
              PlainLiteralIs(rendered,
                             SysPathOpen(embedded.sys_paths, k,
                                         ValueStart(rendered, "module_search_paths:") + 2),
                             embedded.sys_paths[k])
        /\ (embedded.write_modules_directory_env.some =>
              PlainLiteralIs(rendered, ValueStart(rendered, "write_modules_directory_env:") + 2,
                             embedded.write_modules_directory_env.value))
        /\ (embedded.terminfo_resolution.tag = "Static" =>
              RawLiteralIs(rendered, ValueStart(rendered, "terminfo_resolution:") + 6, 3,
                           embedded.terminfo_resolution.value))
        /\ (embedded.run_mode.tag = "Module" =>
              PlainLiteralIs(rendered, ValueStart(rendered, "run:") + 3,
                             embedded.run_mode.payload))
        /\ (embedded.run_mode.tag = "Eval" =>
              RawLiteralIs(rendered, ValueStart(rendered, "run:") + 7, 3,
                           embedded.run_mode.payload))
        /\ (embedded.run_mode.tag = "File" =>
              RawLiteralIs(rendered, ValueStart(rendered, "run:") + 9, 3,
                           embedded.run_mode.payload))

\* The case of the optimization level the specification gives for a level.
OptimizationCase(level) ==
    IF level = 0 THEN "pyembed::OptimizationLevel::Zero"
    ELSE IF level = 1 THEN "pyembed::OptimizationLevel::One"
    ELSE "pyembed::OptimizationLevel::Two"

\* C5: optimization_level renders as Some(<case>), the case being Zero for 0,
\* One for 1 and Two for 2 and for every other level.
C5_OptimizationLevelCase ==
    Derived =>
        LET s == ValueStart(rendered, "optimization_level:")
        IN  /\ s > 1
            /\ SubSeq(rendered, s, s + 4) =
                  <<"Some", "(", OptimizationCase(embedded.optimize_level), ")", ",">>
            /\ rendered[s + 5] = "module_search_paths:"

C5_Witness ==
    /\ Derived
    /\ embedded.optimize_level < 0
    /\ rendered[ValueStart(rendered, "optimization_level:") + 2] = "pyembed::OptimizationLevel::Two"

\* The five variant forms of the run field: the text before and after the
\* payload (no payload where close is empty and open is the whole form).
RunForm(tag) ==
    CASE tag = "Noop" -> [open |-> <<"pyembed::PythonRunMode::None">>, close |-> <<>>]
      [] tag = "Repl" -> [open |-> <<"pyembed::PythonRunMode::Repl">>, close |-> <<>>]
      [] tag = "Module" ->
            [open |-> <<"pyembed::PythonRunMode::Module", "{", "module:", QUOTE>>,
             close |-> <<QUOTE, ".to_string", "(", ")", "}">>]
      [] tag = "Eval" ->
            [open |-> <<"pyembed::PythonRunMode::Eval", "{", "code:", "r", HASH, HASH, HASH, QUOTE>>,
             close |-> <<QUOTE, HASH, HASH, HASH, ".to_string", "(", ")", "}">>]
      [] tag = "File" ->
            [open |-> <<"pyembed::PythonRunMode::File", "{", "path:",
                        "std::path::PathBuf::new", "(", "r", HASH, HASH, HASH, QUOTE>>,
             close |-> <<QUOTE, HASH, HASH, HASH, ")", "}">>]

RunMarkers ==
    {"pyembed::PythonRunMode::None", "pyembed::PythonRunMode::Repl",
     "pyembed::PythonRunMode::Module", "pyembed::PythonRunMode::Eval",
     "pyembed::PythonRunMode::File"}

\* The text of the run field: from after "run:" to the comma and the brace
\* that end the literal.
RunText == SubSeq(rendered, ValueStart(rendered, "run:"), Len(rendered) - 2)

C7_SearchPathsWrapOneValue ==
    (Derived /\ \A k \in DOMAIN embedded.sys_paths : DelimiterFree(embedded.sys_paths[k])) =>
        LET s == ValueStart(rendered, "module_search_paths:")
            e == ValueEnd(rendered, s, <<>>)
        IN  /\ (rendered[s] = "None") = (embedded.sys_paths = <<>>)
            /\ (embedded.sys_paths # <<>> =>
                  /\ rendered[s] = "Some"
                  /\ rendered[s + 1] = "("
                  /\ ArgCount(rendered, s + 2) = 1
                  /\ e > s
                  /\ LiteralsIn(rendered, s, e) = embedded.sys_paths)

\* C8: the terminfo_resolution field is a complete expression: it ends at the
\* comma the renderer puts before the next field, with every parenthesis and
\* literal it opened closed.  Stated for static paths that hold no delimiter.
C8_TerminfoIsComplete ==
    (Derived /\ DelimiterFree(embedded.terminfo_resolution.value)) =>
        LET s == ValueStart(rendered, "terminfo_resolution:")
        IN  /\ ValueEnd(rendered, s, <<>>) > 0
            /\ ValueEnd(rendered, s, <<>>) + 1 = IndexOf(rendered, "write_modules_directory_env:")

====
